---- MODULE Spec2Model ----
(***************************************************************************)
(* A model of the skip list of MauriceGit/skiplist (package skiplist, the  *)
(* version with NewSeedEps / findEntryIndex / Next / Prev / ChangeValue).  *)
(*                                                                         *)
(* Nodes live in a heap (a sequence of records, a node's id is its index,  *)
(* NIL = 0 is Go's nil).  A node that Delete unlinks stays in the heap, as *)
(* it stays alive in Go for as long as some pointer still refers to it.    *)
(* float64 keys are modelled by integers and eps by a small integer, so    *)
(* that |a - b| <= eps is decided exactly as the code decides it.          *)
(***************************************************************************)
EXTENDS Integers, Sequences, FiniteSets, TLC

\* ------------------------------------------------------------- bounds
\* number of nodes ever allocated by Insert in one run
MaxNodes == 3
\* keys inserted are 1..MaxKey, keys queried and deleted are 0..MaxKey
MaxKey == 3
\* the random draws of rand.Uint64() that are enumerated: 0..2^DrawBits-1
DrawBits == 3
\* the tolerances eps a list is constructed with: 0..MaxEps
MaxEps == 1
\* the seeds a list is constructed with, where the seed is followed: 0..MaxSeed
MaxSeed == 2

\* ---------------------------------------------------------- constants
MAX_LEVEL == 25

NIL == 0
Levels == 0..(MAX_LEVEL - 1)
InsertKeys == 1..MaxKey
QueryKeys == 0..MaxKey
Draws == 0..(2^DrawBits - 1)
Seeds == 0..MaxSeed

VARIABLES
    startLevels,   \* SkipList.startLevels : [Levels -> node id or NIL]
    endLevels,     \* SkipList.endLevels
    maxNewLevel,   \* SkipList.maxNewLevel
    maxLevel,      \* SkipList.maxLevel
    elementCount,  \* SkipList.elementCount
    eps,           \* SkipList.eps
    heap,          \* every SkipListElement allocated so far
    err,           \* "ok", or how a call ended abnormally: "panic" (a nil
                   \* pointer was dereferenced) or "loop" (a loop never ends)
    inserted,      \* the caller's record: keys inserted and not deleted since
    pc,            \* the caller: "free" (any call may follow any call), or
                   \* "fill" / "drain" (TestInsertRandom: all Inserts first,
                   \* then Deletes only), or [seed |-> s] where the caller
                   \* follows the seed s it constructed the list with
    globalRand,    \* math/rand's package-level source, where it is followed:
                   \* [seed |-> the last argument of rand.Seed,
                   \*  drawn |-> the number of rand.Uint64() calls since]
    other          \* a second SkipList of the same process, or NoList

vars == <<startLevels, endLevels, maxNewLevel, maxLevel, elementCount, eps,
          heap, err, inserted, pc, globalRand, other>>

\* The list as one value: the receiver t of every method.
List == [startLevels |-> startLevels, endLevels |-> endLevels,
         maxNewLevel |-> maxNewLevel, maxLevel |-> maxLevel,
         elementCount |-> elementCount, eps |-> eps, heap |-> heap]

\* math.Abs
Abs(x) == IF x < 0 THEN -x ELSE x

\* ------------------------------------------------------- construction
NewSeedEps(e) ==
    [startLevels |-> [i \in Levels |-> NIL],
     endLevels |-> [i \in Levels |-> NIL],
     maxNewLevel |-> MAX_LEVEL,
     maxLevel |-> 0,
     elementCount |-> 0,
     eps |-> e,
     heap |-> <<>>]

\* ------------------------------------------------------ generateLevel
RECURSIVE TrailingZeros64(_)
TrailingZeros64(x) ==
    IF x = 0 THEN 64
    ELSE IF x % 2 = 1 THEN 0
    ELSE 1 + TrailingZeros64(x \div 2)

\* generateLevel without the test zeroes <= maxLevel.
generateLevel_Unchecked(ceiling, rnd) ==
    LET x == rnd % (2^(ceiling - 1))
        zeroes == TrailingZeros64(x)
    IN  zeroes

\* rnd is the value rand.Uint64() returns
generateLevel(ceiling, rnd) ==
    LET x == rnd % (2^(ceiling - 1))
        zeroes == TrailingZeros64(x)
    IN  IF zeroes <= ceiling THEN zeroes ELSE ceiling - 1

\* ------------------------------------------------------------ isEmpty
isEmpty(t) == t.startLevels[0] = NIL

\* ----------------------------------------------------- findEntryIndex
RECURSIVE entryScan(_, _, _, _)
entryScan(t, key, level, i) ==
    IF i < 0 THEN 0
    ELSE IF (t.startLevels[i] # NIL /\ t.heap[t.startLevels[i]].key <= key)
            \/ i <= level
         THEN i
         ELSE entryScan(t, key, level, i - 1)

\* findEntryIndex with the scan starting one level below maxLevel.
findEntryIndex_BelowTop(t, key, level) ==
    entryScan(t, key, level, t.maxLevel - 1)

findEntryIndex(t, key, level) == entryScan(t, key, level, t.maxLevel)

\* The loops of the code are unrolled by recursion.  LoopFuel is larger than
\* the number of iterations of any loop that ends; a loop that uses it up
\* does not end (it runs in a cycle of links).
LoopFuel == (MaxNodes + 2) * (MaxNodes + 3)

\* ------------------------------------------------------- findExtended
\* findLoop without the return of "Element is not found and we reached the
\* bottom" when findGreaterOrEqual is false.
RECURSIVE findLoop_NoBottomReturn(_, _, _, _, _, _)
findLoop_NoBottomReturn(t, key, findGreaterOrEqual, index, currentNode, fuel) ==
    IF fuel = 0 THEN [node |-> NIL, ok |-> FALSE, err |-> "loop"]
    ELSE IF currentNode = NIL THEN [node |-> NIL, ok |-> FALSE, err |-> "panic"]
    ELSE IF Abs(t.heap[currentNode].key - key) <= t.eps
         THEN [node |-> currentNode, ok |-> TRUE, err |-> "ok"]
    ELSE
    LET nextNode == t.heap[currentNode].next[index]
        n0 == t.heap[currentNode].next[0]
    IN  IF nextNode # NIL /\ t.heap[nextNode].key <= key
        THEN findLoop_NoBottomReturn(t, key, findGreaterOrEqual, index,
                                     nextNode, fuel - 1)
        ELSE IF index > 0
        THEN IF n0 # NIL /\ Abs(t.heap[n0].key - key) <= t.eps
             THEN [node |-> n0, ok |-> TRUE, err |-> "ok"]
             ELSE findLoop_NoBottomReturn(t, key, findGreaterOrEqual,
                                          index - 1, currentNode, fuel - 1)
        ELSE IF findGreaterOrEqual
             THEN [node |-> nextNode, ok |-> nextNode # NIL, err |-> "ok"]
             ELSE findLoop_NoBottomReturn(t, key, findGreaterOrEqual, index,
                                          currentNode, fuel - 1)

RECURSIVE findLoop(_, _, _, _, _, _)
findLoop(t, key, findGreaterOrEqual, index, currentNode, fuel) ==
    IF fuel = 0 THEN [node |-> NIL, ok |-> FALSE, err |-> "loop"]
    ELSE IF currentNode = NIL THEN [node |-> NIL, ok |-> FALSE, err |-> "panic"]
    ELSE IF Abs(t.heap[currentNode].key - key) <= t.eps
         THEN [node |-> currentNode, ok |-> TRUE, err |-> "ok"]
    ELSE
    LET nextNode == t.heap[currentNode].next[index]
        n0 == t.heap[currentNode].next[0]
    IN  IF nextNode # NIL /\ t.heap[nextNode].key <= key
        THEN findLoop(t, key, findGreaterOrEqual, index, nextNode, fuel - 1)
        ELSE IF index > 0
        THEN IF n0 # NIL /\ Abs(t.heap[n0].key - key) <= t.eps
             THEN [node |-> n0, ok |-> TRUE, err |-> "ok"]
             ELSE findLoop(t, key, findGreaterOrEqual, index - 1, currentNode, fuel - 1)
        ELSE IF findGreaterOrEqual
             THEN [node |-> nextNode, ok |-> nextNode # NIL, err |-> "ok"]
             ELSE [node |-> NIL, ok |-> FALSE, err |-> "ok"]

findExtended(t, key, findGreaterOrEqual) ==
    IF isEmpty(t) THEN [node |-> NIL, ok |-> FALSE, err |-> "ok"]
    ELSE LET index == findEntryIndex(t, key, 0)
         IN  findLoop(t, key, findGreaterOrEqual, index, t.startLevels[index], LoopFuel)

Find(t, key) == findExtended(t, key, FALSE)

FindGreaterOrEqual(t, key) == findExtended(t, key, TRUE)

\* ------------------------------------------------------------- Delete
\* unlinkAt without the line t.elementCount-- (the Delete of skiplist.go).
unlinkAt_KeepsCount(t, index, currentNode, nextNode) ==
    LET h0 == t.heap
        h1 == IF currentNode # NIL
              THEN [h0 EXCEPT ![currentNode].next[index] = h0[nextNode].next[index]]
              ELSE h0
        nn == h1[nextNode].next[index]
        h2 == IF index = 0 /\ nn # NIL
              THEN [h1 EXCEPT ![nn].prev = currentNode]
              ELSE h1
        nx == h2[nextNode].next[index]
        isStart == t.startLevels[index] = nextNode
        st == IF isStart THEN [t.startLevels EXCEPT ![index] = nx]
              ELSE t.startLevels
        ml == IF isStart /\ nx = NIL THEN index - 1 ELSE t.maxLevel
        en == IF nx = NIL THEN [t.endLevels EXCEPT ![index] = currentNode]
              ELSE t.endLevels
        h3 == [h2 EXCEPT ![nextNode].next[index] = NIL]
    IN  [t EXCEPT !.heap = h3, !.startLevels = st, !.endLevels = en,
                  !.maxLevel = ml]

\* unlinkAt with t.elementCount-- outside the test index == 0.
unlinkAt_CountsEveryLevel(t, index, currentNode, nextNode) ==
    LET h0 == t.heap
        h1 == IF currentNode # NIL
              THEN [h0 EXCEPT ![currentNode].next[index] = h0[nextNode].next[index]]
              ELSE h0
        nn == h1[nextNode].next[index]
        h2 == IF index = 0 /\ nn # NIL
              THEN [h1 EXCEPT ![nn].prev = currentNode]
              ELSE h1
        cnt == t.elementCount - 1
        nx == h2[nextNode].next[index]
        isStart == t.startLevels[index] = nextNode
        st == IF isStart THEN [t.startLevels EXCEPT ![index] = nx]
              ELSE t.startLevels
        ml == IF isStart /\ nx = NIL THEN index - 1 ELSE t.maxLevel
        en == IF nx = NIL THEN [t.endLevels EXCEPT ![index] = currentNode]
              ELSE t.endLevels
        h3 == [h2 EXCEPT ![nextNode].next[index] = NIL]
    IN  [t EXCEPT !.heap = h3, !.startLevels = st, !.endLevels = en,
                  !.maxLevel = ml, !.elementCount = cnt]

\* The body of "Found and remove!": nextNode is unlinked at level index.
unlinkAt(t, index, currentNode, nextNode) ==
    LET h0 == t.heap
        h1 == IF currentNode # NIL
              THEN [h0 EXCEPT ![currentNode].next[index] = h0[nextNode].next[index]]
              ELSE h0
        nn == h1[nextNode].next[index]
        h2 == IF index = 0 /\ nn # NIL
              THEN [h1 EXCEPT ![nn].prev = currentNode]
              ELSE h1
        cnt == IF index = 0 THEN t.elementCount - 1 ELSE t.elementCount
        nx == h2[nextNode].next[index]
        isStart == t.startLevels[index] = nextNode
        st == IF isStart THEN [t.startLevels EXCEPT ![index] = nx]
              ELSE t.startLevels
        ml == IF isStart /\ nx = NIL THEN index - 1 ELSE t.maxLevel
        en == IF nx = NIL THEN [t.endLevels EXCEPT ![index] = currentNode]
              ELSE t.endLevels
        h3 == [h2 EXCEPT ![nextNode].next[index] = NIL]
    IN  [t EXCEPT !.heap = h3, !.startLevels = st, !.endLevels = en,
                  !.maxLevel = ml, !.elementCount = cnt]

\* The loop of Delete.  bottom counts the passes through "Found and remove!"
\* with index == 0.
RECURSIVE deleteLoop(_, _, _, _, _)
deleteLoop(t, key, index, currentNode, fuel) ==
    IF fuel = 0 THEN [t |-> t, err |-> "loop", bottom |-> 0]
    ELSE
    LET nextNode == IF currentNode = NIL THEN t.startLevels[index]
                    ELSE t.heap[currentNode].next[index]
        found == nextNode # NIL /\ Abs(t.heap[nextNode].key - key) <= t.eps
        t1 == IF found THEN unlinkAt(t, index, currentNode, nextNode) ELSE t
        rest == IF nextNode # NIL /\ t1.heap[nextNode].key < key
                THEN deleteLoop(t1, key, index, nextNode, fuel - 1)
                ELSE IF index - 1 < 0
                THEN [t |-> t1, err |-> "ok", bottom |-> 0]
                ELSE deleteLoop(t1, key, index - 1, currentNode, fuel - 1)
    IN  [rest EXCEPT !.bottom = @ + (IF found /\ index = 0 THEN 1 ELSE 0)]

Delete(t, key) ==
    IF isEmpty(t) THEN [t |-> t, err |-> "ok", bottom |-> 0]
    ELSE deleteLoop(t, key, findEntryIndex(t, key, 0), NIL, LoopFuel)

\* ------------------------------------------------------------- Insert
\* The splice of "Connect node to next" at level index.
connectAt(t, elem, index, currentNode, nextNode) ==
    LET h0 == t.heap
        h1 == [h0 EXCEPT ![elem].next[index] = nextNode]
        h2 == IF currentNode # NIL
              THEN [h1 EXCEPT ![currentNode].next[index] = elem]
              ELSE h1
        h3 == IF index = 0 THEN [h2 EXCEPT ![elem].prev = currentNode] ELSE h2
    IN  IF index = 0 /\ nextNode = NIL
        THEN [t |-> [t EXCEPT !.heap = h3], err |-> "panic"]
        ELSE IF index = 0
        THEN [t |-> [t EXCEPT !.heap = [h3 EXCEPT ![nextNode].prev = elem]],
              err |-> "ok"]
        ELSE [t |-> [t EXCEPT !.heap = h3], err |-> "ok"]

\* insertLoop with the comparison of "Connect node to next" turned around.
RECURSIVE insertLoop_ConnectBelow(_, _, _, _, _, _)
insertLoop_ConnectBelow(t, elem, level, index, currentNode, fuel) ==
    IF fuel = 0 THEN [t |-> t, err |-> "loop"]
    ELSE
    LET key == t.heap[elem].key
        nextNode == IF currentNode = NIL THEN t.startLevels[index]
                    ELSE t.heap[currentNode].next[index]
        connect == index <= level
                   /\ (nextNode = NIL \/ t.heap[nextNode].key <= key)
        c == IF connect THEN connectAt(t, elem, index, currentNode, nextNode)
             ELSE [t |-> t, err |-> "ok"]
    IN  IF c.err # "ok" THEN c
        ELSE IF nextNode # NIL /\ c.t.heap[nextNode].key < key
        THEN insertLoop_ConnectBelow(c.t, elem, level, index, nextNode, fuel - 1)
        ELSE IF index - 1 < 0
        THEN c
        ELSE insertLoop_ConnectBelow(c.t, elem, level, index - 1, currentNode,
                                     fuel - 1)

RECURSIVE insertLoop(_, _, _, _, _, _)
insertLoop(t, elem, level, index, currentNode, fuel) ==
    IF fuel = 0 THEN [t |-> t, err |-> "loop"]
    ELSE
    LET key == t.heap[elem].key
        nextNode == IF currentNode = NIL THEN t.startLevels[index]
                    ELSE t.heap[currentNode].next[index]
        connect == index <= level
                   /\ (nextNode = NIL \/ t.heap[nextNode].key >= key)
        c == IF connect THEN connectAt(t, elem, index, currentNode, nextNode)
             ELSE [t |-> t, err |-> "ok"]
    IN  IF c.err # "ok" THEN c
        ELSE IF nextNode # NIL /\ c.t.heap[nextNode].key < key
        THEN insertLoop(c.t, elem, level, index, nextNode, fuel - 1)
        ELSE IF index - 1 < 0
        THEN c
        ELSE insertLoop(c.t, elem, level, index - 1, currentNode, fuel - 1)

\* One round of the loop "Where we have a left-most position that needs to
\* be referenced!": the branch newFirst || normallyInserted ...
fixFirst(t, elem, i) ==
    LET key == t.heap[elem].key
        s == t.startLevels[i]
        takeStart == s = NIL \/ t.heap[s].key > key
        h1 == IF takeStart /\ i = 0 /\ s # NIL
              THEN [t.heap EXCEPT ![s].prev = elem]
              ELSE t.heap
        h2 == IF takeStart THEN [h1 EXCEPT ![elem].next[i] = s] ELSE h1
        st == IF takeStart THEN [t.startLevels EXCEPT ![i] = elem]
              ELSE t.startLevels
        en == IF h2[elem].next[i] = NIL THEN [t.endLevels EXCEPT ![i] = elem]
              ELSE t.endLevels
    IN  [t EXCEPT !.heap = h2, !.startLevels = st, !.endLevels = en]

\* ... and the branch newLast.
fixLast(t, elem, i, newFirst) ==
    LET key == t.heap[elem].key
        e == t.endLevels[i]
        h1 == IF ~newFirst /\ e # NIL
              THEN [t.heap EXCEPT ![e].next[i] = elem]
              ELSE t.heap
        h2 == IF ~newFirst /\ i = 0 THEN [h1 EXCEPT ![elem].prev = e] ELSE h1
        en == IF ~newFirst THEN [t.endLevels EXCEPT ![i] = elem]
              ELSE t.endLevels
        s == t.startLevels[i]
        st == IF s = NIL \/ h2[s].key > key
              THEN [t.startLevels EXCEPT ![i] = elem]
              ELSE t.startLevels
    IN  [t EXCEPT !.heap = h2, !.startLevels = st, !.endLevels = en]

RECURSIVE fixLoop(_, _, _, _, _, _)
fixLoop(t, elem, i, newFirst, newLast, normallyInserted) ==
    IF i < 0 THEN t
    ELSE
    LET t1 == IF newFirst \/ normallyInserted THEN fixFirst(t, elem, i) ELSE t
        t2 == IF newLast THEN fixLast(t1, elem, i, newFirst) ELSE t1
        didSomething == newFirst \/ normallyInserted \/ newLast
    IN  IF ~didSomething THEN t2
        ELSE fixLoop(t2, elem, i - 1, newFirst, newLast, normallyInserted)

\* clampLevel without the clamp: the generated level as it is.
clampLevel_Unclamped(t, generated) == generated

\* The level of the new node: the generated level, grown by one at most.
clampLevel(t, generated) ==
    IF generated > t.maxLevel + 1 THEN t.maxLevel + 1 ELSE generated

\* maxLevel after the clamp.
clampMaxLevel(t, generated) ==
    IF generated > t.maxLevel + 1 THEN t.maxLevel + 1 ELSE t.maxLevel

\* key is e.ExtractValue(), rnd the value rand.Uint64() returns.
Insert(t, key, rnd) ==
    LET generated == generateLevel(t.maxNewLevel, rnd)
        level == clampLevel(t, generated)
        elem == Len(t.heap) + 1
        node == [next |-> [i \in Levels |-> NIL], level |-> level,
                 key |-> key, value |-> key, prev |-> NIL]
        t0 == [t EXCEPT !.maxLevel = clampMaxLevel(t, generated),
                        !.heap = Append(t.heap, node),
                        !.elementCount = t.elementCount + 1]
    IN  IF ~isEmpty(t0) /\ t0.endLevels[0] = NIL
        THEN [t |-> t0, err |-> "panic"]
        ELSE
        LET newFirst == IF isEmpty(t0) THEN TRUE
                        ELSE key < t0.heap[t0.startLevels[0]].key
            newLast == IF isEmpty(t0) THEN TRUE
                       ELSE key > t0.heap[t0.endLevels[0]].key
            normallyInserted == ~newFirst /\ ~newLast
            w == IF normallyInserted
                 THEN insertLoop(t0, elem, level,
                                 findEntryIndex(t0, key, level), NIL, LoopFuel)
                 ELSE [t |-> t0, err |-> "ok"]
        IN  IF w.err # "ok" THEN w
            ELSE [t |-> fixLoop(w.t, elem, level, newFirst, newLast,
                                normallyInserted),
                  err |-> "ok"]

\* ---------------------------------------------------------- accessors
GetSmallestNode(t) == t.startLevels[0]

GetLargestNode(t) == t.endLevels[0]

Next(t, e) == IF t.heap[e].next[0] = NIL THEN t.startLevels[0]
              ELSE t.heap[e].next[0]

Prev(t, e) == IF t.heap[e].prev = NIL THEN t.endLevels[0]
              ELSE t.heap[e].prev

\* newKey is newValue.ExtractValue(); a payload is modelled by its key, as
\* in Insert.  The difference is compared as it is, without math.Abs.
ChangeValue(t, e, newKey) ==
    IF (newKey - t.heap[e].key) <= t.eps
    THEN [t |-> [t EXCEPT !.heap[e].value = newKey], ok |-> TRUE]
    ELSE [t |-> t, ok |-> FALSE]

\* ------------------------------------------------- the level-0 chain
\* The nodes met walking next[0] from start (at most fuel of them).
RECURSIVE walk0(_, _, _)
walk0(t, n, fuel) ==
    IF n = NIL \/ fuel = 0 THEN <<>>
    ELSE <<n>> \o walk0(t, t.heap[n].next[0], fuel - 1)

\* The nodes in the list, smallest first.
Chain0(t) == walk0(t, t.startLevels[0], MaxNodes + 1)

Range(f) == {f[i] : i \in DOMAIN f}

InList(t) == Range(Chain0(t))

\* ------------------------------------------------------------ actions
\* Where the draws of rand.Uint64() are arbitrary (\E rnd \in Draws), the
\* source is not followed and there is one list only.
NoRand == [seed |-> 0, drawn |-> 0]

NoList == [heap |-> <<>>]

Outside == UNCHANGED <<globalRand, other>>

InitList ==
    /\ eps \in 0..MaxEps
    /\ startLevels = NewSeedEps(eps).startLevels
    /\ endLevels = NewSeedEps(eps).endLevels
    /\ maxNewLevel = NewSeedEps(eps).maxNewLevel
    /\ maxLevel = NewSeedEps(eps).maxLevel
    /\ elementCount = NewSeedEps(eps).elementCount
    /\ heap = NewSeedEps(eps).heap
    /\ err = "ok"
    /\ inserted = {}
    /\ globalRand = NoRand
    /\ other = NoList

Init == InitList /\ pc = "free"

InitFill == InitList /\ pc = "fill"

\* The list after a call that returned r.t.
Becomes(r) ==
    /\ startLevels' = r.t.startLevels
    /\ endLevels' = r.t.endLevels
    /\ maxNewLevel' = r.t.maxNewLevel
    /\ maxLevel' = r.t.maxLevel
    /\ elementCount' = r.t.elementCount
    /\ eps' = r.t.eps
    /\ heap' = r.t.heap
    /\ err' = r.err

\* A call that writes no field of the list or of a node.
ReadOnly == UNCHANGED <<startLevels, endLevels, maxNewLevel, maxLevel,
                        elementCount, eps, heap>>

Caller == UNCHANGED <<inserted, pc>> /\ Outside

\* k is equal (within eps) to no key the caller has stored ...
Fresh(k) == \A j \in inserted : Abs(j - k) > eps

\* ... to none but itself.
FreshOrStored(k) == \A j \in inserted : j = k \/ Abs(j - k) > eps

InsertCall(k, rnd) ==
    /\ err = "ok"
    /\ Len(heap) < MaxNodes
    /\ Becomes(Insert(List, k, rnd))
    /\ inserted' = inserted \cup {k}
    /\ Outside

DeleteCall(k) ==
    /\ err = "ok"
    /\ Becomes(Delete(List, k))
    /\ inserted' = inserted \ {k}
    /\ Outside

\* Calls with any key.
DoInsert(k, rnd) == InsertCall(k, rnd) /\ UNCHANGED pc

DoDelete(k) == DeleteCall(k) /\ UNCHANGED pc

\* Calls with pairwise distinct keys, as in the tests of the package.
DoInsertDistinct(k, rnd) == Fresh(k) /\ InsertCall(k, rnd) /\ UNCHANGED pc

DoDeleteDistinct(k) == FreshOrStored(k) /\ DeleteCall(k) /\ UNCHANGED pc

\* TestInsertRandom, TestBenchmarkDelete: distinct keys are inserted, then
\* keys are deleted.
DoFill(k, rnd) == pc = "fill" /\ Fresh(k) /\ InsertCall(k, rnd) /\ UNCHANGED pc

DoDrain(k) == FreshOrStored(k) /\ DeleteCall(k) /\ pc' = "drain"

\* The read-only calls: their results are the values of the operators Find,
\* FindGreaterOrEqual, GetSmallestNode, GetLargestNode, Next and Prev in the
\* current state; as steps they change the state only by failing.
\* DoFind with findExtended leaving its entry level in t.maxLevel.
DoFind_MovesMaxLevel(k) ==
    /\ err = "ok"
    /\ err' = Find(List, k).err
    /\ maxLevel' = findEntryIndex(List, k, 0)
    /\ UNCHANGED <<startLevels, endLevels, maxNewLevel, elementCount, eps,
                   heap>>
    /\ Caller

DoFind(k) ==
    /\ err = "ok"
    /\ err' = Find(List, k).err
    /\ ReadOnly
    /\ Caller

DoFindGreaterOrEqual(k) ==
    /\ err = "ok"
    /\ err' = FindGreaterOrEqual(List, k).err
    /\ ReadOnly
    /\ Caller

DoGetSmallestNode ==
    /\ err = "ok"
    /\ GetSmallestNode(List) \in 0..MaxNodes
    /\ UNCHANGED err
    /\ ReadOnly
    /\ Caller

DoGetLargestNode ==
    /\ err = "ok"
    /\ GetLargestNode(List) \in 0..MaxNodes
    /\ UNCHANGED err
    /\ ReadOnly
    /\ Caller

\* Next and Prev are called with a node of the list.
DoNext(e) ==
    /\ err = "ok"
    /\ e \in InList(List)
    /\ Next(List, e) \in 0..MaxNodes
    /\ UNCHANGED err
    /\ ReadOnly
    /\ Caller

DoPrev(e) ==
    /\ err = "ok"
    /\ e \in InList(List)
    /\ Prev(List, e) \in 0..MaxNodes
    /\ UNCHANGED err
    /\ ReadOnly
    /\ Caller

\* ChangeValue is called with a node of the list.
DoChangeValue(e, newKey) ==
    /\ err = "ok"
    /\ e \in InList(List)
    /\ Becomes([t |-> ChangeValue(List, e, newKey).t, err |-> "ok"])
    /\ Caller

Queries ==
    \/ \E k \in QueryKeys : DoFind(k)
    \/ \E k \in QueryKeys : DoFindGreaterOrEqual(k)
    \/ DoGetSmallestNode
    \/ DoGetLargestNode
    \/ \E e \in 1..MaxNodes : DoNext(e)
    \/ \E e \in 1..MaxNodes : DoPrev(e)

\* Any call after any call, keys pairwise distinct.
Step ==
    \/ \E k \in InsertKeys, rnd \in Draws : DoInsertDistinct(k, rnd)
    \/ \E k \in QueryKeys : DoDeleteDistinct(k)
    \/ Queries

Spec == Init /\ [][Step]_vars

\* Any call after any call, any keys.
StepAnyKeys ==
    \/ \E k \in InsertKeys, rnd \in Draws : DoInsert(k, rnd)
    \/ \E k \in QueryKeys : DoDelete(k)
    \/ Queries

SpecAnyKeys == Init /\ [][StepAnyKeys]_vars

\* Inserts only, any keys.
StepInserts ==
    \/ \E k \in InsertKeys, rnd \in Draws : DoInsert(k, rnd)
    \/ Queries

SpecInserts == Init /\ [][StepInserts]_vars

\* Distinct keys are inserted, then keys are deleted.
StepFillDrain ==
    \/ \E k \in InsertKeys, rnd \in Draws : DoFill(k, rnd)
    \/ \E k \in QueryKeys : DoDrain(k)
    \/ Queries

SpecFillDrain == InitFill /\ [][StepFillDrain]_vars

\* Any call after any call, keys pairwise distinct, with ChangeValue.
StepChange ==
    \/ Step
    \/ \E e \in 1..MaxNodes, newKey \in QueryKeys : DoChangeValue(e, newKey)

SpecChange == Init /\ [][StepChange]_vars

\* Keys that lie further apart than eps are inserted, any key is deleted or
\* looked up, the keys between two stored keys included.
FarKeys == 1..(MaxKey + 1)

FarQueries == 0..(MaxKey + 1)

StepFar ==
    \/ \E k \in FarKeys, rnd \in Draws : DoInsertDistinct(k, rnd)
    \/ \E k \in FarQueries : DoDelete(k)
    \/ \E k \in FarQueries : DoFind(k)

SpecFar == Init /\ [][StepFar]_vars

\* A list constructed with any tolerance, a negative one included: NewSeedEps
\* takes every float64.
InitAnyEps ==
    /\ eps \in (-1)..MaxEps
    /\ startLevels = NewSeedEps(eps).startLevels
    /\ endLevels = NewSeedEps(eps).endLevels
    /\ maxNewLevel = NewSeedEps(eps).maxNewLevel
    /\ maxLevel = NewSeedEps(eps).maxLevel
    /\ elementCount = NewSeedEps(eps).elementCount
    /\ heap = NewSeedEps(eps).heap
    /\ err = "ok"
    /\ inserted = {}
    /\ pc = "free"
    /\ globalRand = NoRand
    /\ other = NoList

SpecAnyEps == InitAnyEps /\ [][Step]_vars

\* ------------------------------------------------- the seeded source
\* rand.Seed(seed): the package-level source restarts.
Seeded(seed) == [seed |-> seed, drawn |-> 0]

\* The n-th value (from 0) that rand.Uint64() returns after rand.Seed(seed),
\* cut to DrawBits bits: a fixed function of seed and n.  math/rand's
\* generator is stood for by a linear congruential one of full period.
RECURSIVE Uint64At(_, _)
Uint64At(seed, n) ==
    LET x == IF n = 0 THEN seed % (2^DrawBits) ELSE Uint64At(seed, n - 1)
    IN  (5 * x + 3) % (2^DrawBits)

\* rand.Uint64() in the state g of the source.
RandUint64(g) == Uint64At(g.seed, g.drawn)

\* A list is constructed with the seed s; the caller keeps s.
InitSeeded ==
    /\ eps \in 0..MaxEps
    /\ startLevels = NewSeedEps(eps).startLevels
    /\ endLevels = NewSeedEps(eps).endLevels
    /\ maxNewLevel = NewSeedEps(eps).maxNewLevel
    /\ maxLevel = NewSeedEps(eps).maxLevel
    /\ elementCount = NewSeedEps(eps).elementCount
    /\ heap = NewSeedEps(eps).heap
    /\ err = "ok"
    /\ inserted = {}
    /\ \E s \in Seeds : pc = [seed |-> s] /\ globalRand = Seeded(s)
    /\ other = NoList

\* Insert into the list, the level drawn from the package-level source.
DoSeededInsert(k) ==
    /\ err = "ok"
    /\ Len(heap) < MaxNodes
    /\ Fresh(k)
    /\ Becomes(Insert(List, k, RandUint64(globalRand)))
    /\ inserted' = inserted \cup {k}
    /\ globalRand' = [globalRand EXCEPT !.drawn = @ + 1]
    /\ UNCHANGED <<pc, other>>

\* NewSeedEps(s, eps) for a second list.
DoNewOther(s) ==
    /\ err = "ok"
    /\ other = NoList
    /\ other' = NewSeedEps(eps)
    /\ globalRand' = Seeded(s)
    /\ ReadOnly
    /\ UNCHANGED <<err, inserted, pc>>

\* Insert into the second list.
DoOtherInsert(k) ==
    /\ err = "ok"
    /\ other # NoList
    /\ Len(other.heap) < MaxNodes
    /\ \A i \in 1..Len(other.heap) : other.heap[i].key # k
    /\ Insert(other, k, RandUint64(globalRand)).err = "ok"
    /\ other' = Insert(other, k, RandUint64(globalRand)).t
    /\ globalRand' = [globalRand EXCEPT !.drawn = @ + 1]
    /\ ReadOnly
    /\ UNCHANGED <<err, inserted, pc>>

StepSeeded ==
    \/ \E k \in InsertKeys : DoSeededInsert(k)
    \/ \E s \in Seeds : DoNewOther(s)
    \/ \E k \in InsertKeys : DoOtherInsert(k)

SpecSeeded == InitSeeded /\ [][StepSeeded]_vars

\* The levels of the first n nodes of a list constructed with seed, when
\* every draw since rand.Seed(seed) is one of its own Inserts; i is the
\* Insert to come and ml the list's maxLevel before it.
RECURSIVE OwnLevels(_, _, _, _)
OwnLevels(seed, i, n, ml) ==
    IF i > n THEN <<>>
    ELSE LET g == generateLevel(MAX_LEVEL, Uint64At(seed, i - 1))
             t == [maxLevel |-> ml]
         IN  <<clampLevel(t, g)>> \o OwnLevels(seed, i + 1, n, clampMaxLevel(t, g))

\* ------------------------------------------------------------- claims
\* The list after the step.
ListAfter == [startLevels |-> startLevels', endLevels |-> endLevels',
              maxNewLevel |-> maxNewLevel', maxLevel |-> maxLevel',
              elementCount |-> elementCount', eps |-> eps', heap |-> heap']

KeyOf(n) == heap[n].key

\* The nodes in the list whose key is equal to q (within eps).
Near(q) == {n \in InList(List) : Abs(KeyOf(n) - q) <= eps}

\* The nodes in the list whose key is greater than q.
Above(q) == {n \in InList(List) : KeyOf(n) > q}

\* C1: every key inserted and not deleted since is found by Find, and the
\* node found has that key (within eps).
C1_FindCompleteness ==
    err = "ok" =>
        \A k \in inserted :
            LET r == Find(List, k)
            IN  r.ok /\ r.node # NIL /\ Abs(KeyOf(r.node) - k) <= eps

\* C2: Find returns (nil, false) for a key that no node in the list has
\* (within eps): on the empty list, for a key never inserted, for a key
\* whose node has been deleted.
C2_FindAbsent ==
    err = "ok" =>
        \A q \in QueryKeys :
            Near(q) = {} => (Find(List, q).node = NIL /\ ~Find(List, q).ok)

\* C3: on a non-empty list, for a query key q not below the smallest stored
\* key, FindGreaterOrEqual returns the node with key q if q is stored,
\* otherwise the node of the smallest key above q, and ok = false if there
\* is none.
C3_FindGreaterOrEqual ==
    (err = "ok" /\ ~isEmpty(List)) =>
        \A q \in QueryKeys :
            q >= KeyOf(GetSmallestNode(List)) =>
                LET r == FindGreaterOrEqual(List, q)
                IN  IF Near(q) # {} THEN r.ok /\ r.node \in Near(q)
                    ELSE IF Above(q) # {}
                    THEN /\ r.ok
                         /\ r.node \in Above(q)
                         /\ \A m \in Above(q) : KeyOf(r.node) <= KeyOf(m)
                    ELSE ~r.ok

\* C4: on a non-empty list, FindGreaterOrEqual with a query key below the
\* smallest stored key ends and returns the smallest node with ok = true.
C4_FindGreaterOrEqualBelow ==
    (err = "ok" /\ ~isEmpty(List)) =>
        \A q \in QueryKeys :
            (q < KeyOf(GetSmallestNode(List)) /\ Near(q) = {}) =>
                LET r == FindGreaterOrEqual(List, q)
                IN  r.err = "ok" /\ r.ok /\ r.node = GetSmallestNode(List)

C6_DeleteExactlyOne ==
    [][\A k \in QueryKeys :
         (DoDeleteDistinct(k) /\ Near(k) # {} /\ err' = "ok") =>
             /\ ~Find(ListAfter, k).ok
             /\ Near(k) \cap InList(ListAfter) = {}
             /\ \A n \in InList(List) \ Near(k) :
                    /\ n \in InList(ListAfter)
                    /\ (Find(List, KeyOf(n)).ok => Find(ListAfter, KeyOf(n)).ok)
      ]_vars

\* C7: Delete on an empty list, or of a key that no node in the list has
\* (within eps), changes no link, no anchor, not maxLevel and not the count.
C7_DeleteAbsentNoOp ==
    [][\A k \in QueryKeys :
         (DoDeleteDistinct(k) /\ (isEmpty(List) \/ Near(k) = {})) => ReadOnly
      ]_vars

\* The nodes met walking prev from n (at most fuel of them).
RECURSIVE walkBack(_, _, _)
walkBack(t, n, fuel) ==
    IF n = NIL \/ fuel = 0 THEN <<>>
    ELSE <<n>> \o walkBack(t, t.heap[n].prev, fuel - 1)

Ascending(w) == \A i \in 1..(Len(w) - 1) : KeyOf(w[i]) < KeyOf(w[i + 1])

Descending(w) == \A i \in 1..(Len(w) - 1) : KeyOf(w[i]) > KeyOf(w[i + 1])

\* Walking Next from the smallest node gives ascending keys until it wraps
\* to the smallest node, walking Prev from the largest node descending keys
\* until it wraps to the largest node.
OrderedWalks ==
    LET fw == walk0(List, GetSmallestNode(List), MaxNodes + 1)
        bw == walkBack(List, GetLargestNode(List), MaxNodes + 1)
    IN  ~isEmpty(List) =>
            /\ GetLargestNode(List) # NIL
            /\ Len(fw) <= MaxNodes /\ Ascending(fw)
            /\ Next(List, fw[Len(fw)]) = GetSmallestNode(List)
            /\ Len(bw) <= MaxNodes /\ Descending(bw)
            /\ Prev(List, bw[Len(bw)]) = GetLargestNode(List)

\* C8 as claimed: after every sequence of Insert calls the walks are ordered.
C8_OrderAnyKeys == err = "ok" => OrderedWalks

\* No two Insert calls so far were given the same key (under SpecInserts the
\* heap holds the node of every Insert call).
NoKeyTwice ==
    \A i, j \in 1..Len(heap) : i # j => heap[i].key # heap[j].key

\* C8 amended: after every sequence of Insert calls with pairwise distinct
\* keys no call has failed and the walks are ordered.
C8_OrderDistinctKeys == NoKeyTwice => (err = "ok" /\ OrderedWalks)

\* C8 witness: as many distinct keys as the bound allows were inserted.
C8_Witness ==
    /\ err = "ok" /\ NoKeyTwice
    /\ Len(heap) = MaxNodes
    /\ Len(Chain0(List)) = MaxNodes
    /\ OrderedWalks

\* C9: Next(Prev(n)) = n and Prev(Next(n)) = n for every node n in the list.
C9_RoundTrip ==
    err = "ok" =>
        \A n \in InList(List) :
            /\ Prev(List, n) # NIL /\ Next(List, Prev(List, n)) = n
            /\ Next(List, n) # NIL /\ Prev(List, Next(List, n)) = n

\* The nodes of the list with the greatest and with the least key.
Largest == {n \in InList(List) : \A m \in InList(List) : KeyOf(m) <= KeyOf(n)}
Smallest == {n \in InList(List) : \A m \in InList(List) : KeyOf(m) >= KeyOf(n)}

\* C10: on a non-empty list Next and Prev return a node for every node of
\* the list, Next of the largest node is the smallest node, Prev of the
\* smallest node the largest, and the only node of a one-element list is
\* its own Next and Prev.
C10_WrapAround ==
    (err = "ok" /\ ~isEmpty(List)) =>
        /\ \A n \in InList(List) : Next(List, n) # NIL /\ Prev(List, n) # NIL
        /\ \A n \in Largest : Next(List, n) \in Smallest
        /\ \A n \in Smallest : Prev(List, n) \in Largest
        /\ elementCount = 1 =>
               \A n \in InList(List) : Next(List, n) = n /\ Prev(List, n) = n

\* The nodes currently in the list: those on the level-0 chain, walked
\* forward from start[0] or backward from end[0].
Stored ==
    InList(List) \cup Range(walkBack(List, GetLargestNode(List), MaxNodes + 1))

\* C11: GetSmallestNode returns the node of minimum key and GetLargestNode
\* the node of maximum key among the nodes in the list, and each returns nil
\* exactly when the list holds no element.
C11_SmallestLargest ==
    err = "ok" =>
        /\ (GetSmallestNode(List) = NIL) <=> (elementCount = 0)
        /\ (GetLargestNode(List) = NIL) <=> (elementCount = 0)
        /\ \A n \in Stored :
               /\ KeyOf(GetSmallestNode(List)) <= KeyOf(n)
               /\ KeyOf(GetLargestNode(List)) >= KeyOf(n)

\* C12: ChangeValue with a key that differs from the node's key by more
\* than eps, in either direction, returns false and leaves the node's value
\* as it was.
C12_ChangeValueRejects ==
    [][\A e \in 1..MaxNodes, newKey \in QueryKeys :
         (DoChangeValue(e, newKey) /\ Abs(newKey - KeyOf(e)) > eps) =>
             /\ ~ChangeValue(List, e, newKey).ok
             /\ heap'[e].value = heap[e].value
      ]_vars

\* C13: ChangeValue with a key within eps of the node's key returns true,
\* and the next Find for the node's key returns that node, which carries
\* the new value.
C13_ChangeValueVisible ==
    [][\A e \in 1..MaxNodes, newKey \in QueryKeys :
         (DoChangeValue(e, newKey) /\ Abs(newKey - KeyOf(e)) <= eps) =>
             /\ ChangeValue(List, e, newKey).ok
             /\ heap'[e].value = newKey
             /\ LET r == Find(ListAfter, KeyOf(e))
                IN  r.err = "ok" /\ r.ok /\ r.node = e
      ]_vars

\* What ChangeValue must leave alone: every node's key, level and links,
\* the anchors, maxLevel and the element count.
ChangeValueFrame ==
    /\ UNCHANGED <<startLevels, endLevels, maxNewLevel, maxLevel,
                   elementCount, eps>>
    /\ Len(heap') = Len(heap)
    /\ \A n \in 1..Len(heap) :
           /\ heap'[n].key = heap[n].key
           /\ heap'[n].level = heap[n].level
           /\ heap'[n].next = heap[n].next
           /\ heap'[n].prev = heap[n].prev

\* Every node's stored value has a key within eps of the node's key.
ValueKeysAgree == \A n \in 1..Len(heap) : Abs(heap[n].value - heap[n].key) <= eps

\* C14: ChangeValue changes nothing but a value, and afterwards the key of
\* every node's value is still within eps of the node's key.
C14_ChangeValueFrame ==
    [][\A e \in 1..MaxNodes, newKey \in QueryKeys :
         (DoChangeValue(e, newKey) /\ ValueKeysAgree) =>
             (ChangeValueFrame /\ ValueKeysAgree')
      ]_vars

\* C15: the element count is the number of nodes on the level-0 chain from
\* start[0] to end[0].
C15_CountIsChainLength ==
    err = "ok" =>
        /\ elementCount = Len(Chain0(List))
        /\ ~isEmpty(List) =>
               Chain0(List)[Len(Chain0(List))] = GetLargestNode(List)

\* C16: after Insert returns, the new node is reached from start[0] by
\* next[0] links and from end[0] by prev links.
C16_NewNodeReachable ==
    [][\A k \in InsertKeys, rnd \in Draws :
         (DoInsert(k, rnd) /\ err' = "ok") =>
             /\ Len(heap') \in Range(walk0(ListAfter, startLevels'[0],
                                           MaxNodes + 1))
             /\ Len(heap') \in Range(walkBack(ListAfter, endLevels'[0],
                                              MaxNodes + 1))
      ]_vars

\* C17: no call of Insert, Delete, Find or FindGreaterOrEqual dereferences
\* nil.
C17_NoNilDereference == err # "panic"

\* C18: every call of Find, FindGreaterOrEqual, Insert and Delete leaves its
\* loop.
C18_LoopsEnd == err # "loop"

\* C18 witness: after Inserts and Deletes one element is left, and Find and
\* FindGreaterOrEqual return for every key, among them keys that are not
\* stored, below the smallest and above the largest key.
C18_Witness ==
    /\ err = "ok" /\ Len(heap) = MaxNodes
    /\ elementCount = 1 /\ Len(Chain0(List)) = 1
    /\ \A k \in QueryKeys :
           Find(List, k).err = "ok" /\ FindGreaterOrEqual(List, k).err = "ok"
    /\ \E k \in QueryKeys :
           k < KeyOf(GetSmallestNode(List)) /\ ~Find(List, k).ok
    /\ \E k \in QueryKeys :
           k > KeyOf(GetLargestNode(List)) /\ ~Find(List, k).ok

\* C19: a list with a negative tolerance is not handed out: its construction
\* has failed.
C19_NegativeEpsRejected == eps < 0 => err # "ok"

\* C20: the levels of the nodes of a list constructed with a seed are those
\* the seed and the list's own Inserts give, whatever was done with another
\* list in between.
C20_LevelsBySeed ==
    err = "ok" =>
        \A i \in 1..Len(heap) :
            heap[i].level = OwnLevels(pc.seed, 1, Len(heap), 0)[i]

\* The nodes met walking next[L] from n (at most fuel of them).
RECURSIVE walkL(_, _, _, _)
walkL(t, n, L, fuel) ==
    IF n = NIL \/ fuel = 0 THEN <<>>
    ELSE <<n>> \o walkL(t, t.heap[n].next[L], L, fuel - 1)

\* The chain of level L, from start[L].
ChainL(t, L) == walkL(t, t.startLevels[L], L, MaxNodes + 1)

\* The nodes in the list whose level is at least L.
AtLevel(L) == {n \in InList(List) : heap[n].level >= L}

\* C21: for every level L with start[L] present, start[L] is the node of
\* minimum key and end[L] the node of maximum key among the nodes in the
\* list whose level is at least L.
C21_AnchorsAreExtremes ==
    err = "ok" =>
        \A L \in Levels :
            startLevels[L] # NIL =>
                /\ startLevels[L] \in AtLevel(L)
                /\ endLevels[L] \in AtLevel(L)
                /\ \A n \in AtLevel(L) :
                       /\ KeyOf(startLevels[L]) <= KeyOf(n)
                       /\ KeyOf(endLevels[L]) >= KeyOf(n)

\* C22: at every level L the chain from start[L] holds exactly the nodes in
\* the list whose level is at least L, in ascending order of their keys, and
\* its last node is end[L].
C22_LevelChains ==
    err = "ok" =>
        \A L \in Levels :
            LET c == ChainL(List, L)
            IN  /\ Len(c) <= MaxNodes
                /\ Range(c) = AtLevel(L)
                /\ Ascending(c)
                /\ endLevels[L] = IF c = <<>> THEN NIL ELSE c[Len(c)]

\* The levels with a start anchor.
Anchored == {L \in Levels : startLevels[L] # NIL}

\* C23: maxLevel is the highest level with a start anchor, and -1 when there
\* is none.
C23_MaxLevelIsTopAnchor ==
    err = "ok" =>
        /\ Anchored = {} => maxLevel = -1
        /\ Anchored # {} =>
               maxLevel \in Anchored /\ \A L \in Anchored : L <= maxLevel

\* C24: after every Insert maxLevel is at least the level of every node in
\* the list.
C24_MaxLevelCoversNodes ==
    [][\A k \in InsertKeys, rnd \in Draws :
         (DoInsertDistinct(k, rnd) /\ err' = "ok") =>
             \A n \in InList(ListAfter) : heap'[n].level <= maxLevel'
      ]_vars

\* The nodes in the list before a call that are not in it after the call.
Removed == InList(List) \ InList(ListAfter)

\* After the call no anchor and no link of a node in the list refers to g.
Unreferenced(g) ==
    /\ \A L \in Levels : startLevels'[L] # g /\ endLevels'[L] # g
    /\ \A n \in InList(ListAfter) :
           /\ heap'[n].prev # g
           /\ \A L \in Levels : heap'[n].next[L] # g

\* C25: after Delete removes a node, no start or end anchor and no next or
\* prev link of a node remaining in the list refers to the removed node.
C25_RemovedNodeUnreferenced ==
    [][\A k \in QueryKeys :
         (DoDeleteDistinct(k) /\ err' = "ok") =>
             \A g \in Removed : Unreferenced(g)
      ]_vars

\* C26: whenever the list is empty (start[0] is nil), every start and end
\* anchor is nil and the element count is 0.
C26_EmptyHasNoAnchors ==
    (err = "ok" /\ isEmpty(List)) =>
        /\ \A L \in Levels : startLevels[L] = NIL /\ endLevels[L] = NIL
        /\ elementCount = 0

\* C27: Find(v) returns ok = true whenever some node in the list has a key
\* within eps of the key of v, be the stored key below or above it.
C27_FindWithinEps ==
    err = "ok" =>
        \A q \in FarQueries :
            Near(q) # {} => (Find(List, q).ok /\ Find(List, q).node \in Near(q))

\* C28: in every state and for every key, Delete removes a node from the
\* list if and only if Find of that key, on the same state, returns ok = true.
C28_DeleteIffFind ==
    err = "ok" =>
        \A q \in FarQueries :
            LET d == Delete(List, q)
            IN  d.err = "ok" =>
                    ((InList(List) \ InList(d.t) # {}) <=> Find(List, q).ok)

\* The nodes that a call takes out of the chain of some level.
Unlinked ==
    {n \in 1..Len(heap) :
        \E L \in Levels : /\ n \in Range(ChainL(List, L))
                          /\ n \notin Range(ChainL(ListAfter, L))}

\* C29: within one Delete every unlink, at whatever level, is applied to one
\* and the same node, the one removed at level 0, also when several stored
\* keys lie within eps of the key; every other node stays linked at the
\* levels it was linked at.
C29_DeleteUnlinksOneNode ==
    [][\A k \in QueryKeys :
         (DoDelete(k) /\ err' = "ok") =>
             /\ Cardinality(Removed) <= 1
             /\ Unlinked \subseteq Removed
      ]_vars

\* C30: a Delete decreases the element count by exactly 1 if it unlinks a
\* node at level 0, and leaves it unchanged otherwise, at however many
\* levels it unlinks.
C30_DeleteCountsOnce ==
    [][\A k \in QueryKeys :
         (DoDelete(k) /\ err' = "ok") =>
             elementCount' = IF Delete(List, k).bottom > 0
                             THEN elementCount - 1
                             ELSE elementCount
      ]_vars

\* C30 witness: of nodes with keys further apart than eps, a Delete has
\* unlinked one at level 0 and at two levels above, and the count is one less
\* than the number of Inserts.
C30_Witness ==
    /\ err = "ok"
    /\ \A a, b \in 1..Len(heap) : a # b => Abs(KeyOf(a) - KeyOf(b)) > eps
    /\ elementCount = Len(heap) - 1
    /\ elementCount = Len(Chain0(List))
    /\ \E n \in 1..Len(heap) :
           /\ heap[n].level >= 2
           /\ \A L \in Levels : n \notin Range(ChainL(List, L))

\* ------------------------------------------------- generateLevel alone
\* The ceilings generateLevel is called with, and draws of rand.Uint64():
\* the small ones and those whose bits below the mask of MAX_LEVEL are 0.
Ceilings == 1..MAX_LEVEL

LevelDraws == Draws \cup {d * 2^(MAX_LEVEL - 1) : d \in 1..2}

\* The caller holds a ceiling and a draw; level is -1 until generateLevel
\* has returned.
InitLevels ==
    /\ InitList
    /\ \E c \in Ceilings, r \in LevelDraws :
           pc = [ceiling |-> c, rnd |-> r, level |-> -1]

DoGenerateLevel ==
    /\ pc.level = -1
    /\ pc' = [pc EXCEPT !.level = generateLevel(pc.ceiling, pc.rnd)]
    /\ UNCHANGED err
    /\ ReadOnly
    /\ UNCHANGED inserted
    /\ Outside

\* Insert calls generateLevel(t.maxNewLevel); the next draw is any.
DoInsertDrawn(k) ==
    /\ pc.ceiling = maxNewLevel
    /\ Fresh(k)
    /\ InsertCall(k, pc.rnd)
    /\ \E r \in LevelDraws :
           pc' = [ceiling |-> maxNewLevel, rnd |-> r, level |-> -1]

StepLevels ==
    \/ DoGenerateLevel
    \/ \E k \in InsertKeys : DoInsertDrawn(k)

SpecLevels == InitLevels /\ [][StepLevels]_vars

\* C31: generateLevel(ceiling) returns a value in 0..ceiling-1 for every
\* draw, and ceiling-1 when all the masked bits of the draw are zero; the
\* level of every node is below MAX_LEVEL, an index of next, startLevels and
\* endLevels.
C31_LevelInRange ==
    /\ pc.level # -1 =>
           /\ pc.level \in 0..(pc.ceiling - 1)
           /\ pc.rnd % (2^(pc.ceiling - 1)) = 0 => pc.level = pc.ceiling - 1
    /\ \A n \in 1..Len(heap) :
           /\ heap[n].level \in 0..(MAX_LEVEL - 1)
           /\ heap[n].level \in DOMAIN heap[n].next
           /\ heap[n].level \in DOMAIN startLevels
           /\ heap[n].level \in DOMAIN endLevels

\* C31 witness: after Inserts, generateLevel(MAX_LEVEL) has returned
\* MAX_LEVEL-1 for a draw that is not 0 but has all masked bits zero.
C31_Witness ==
    /\ err = "ok" /\ Len(heap) = MaxNodes
    /\ pc.ceiling = MAX_LEVEL /\ pc.rnd > 0
    /\ pc.rnd % (2^(pc.ceiling - 1)) = 0
    /\ pc.level = MAX_LEVEL - 1

\* C32: Insert gives the new node a level of at most one above the value
\* maxLevel had before the call, and raises maxLevel by one at most.
C32_GrowsByOne ==
    [][\A k \in InsertKeys, rnd \in Draws :
         DoInsert(k, rnd) =>
             /\ Len(heap') = Len(heap) + 1
             /\ heap'[Len(heap')].level <= maxLevel + 1
             /\ maxLevel' <= maxLevel + 1
      ]_vars

\* C32 witness: three Inserts, no Delete; each generated level was above
\* maxLevel + 1 (the draws give the levels 0, 1, 2 and MAX_LEVEL-1 only) and
\* each node got the level maxLevel + 1 of its time: 1, 2 and 3.
C32_Witness ==
    /\ err = "ok" /\ Len(heap) = 3 /\ elementCount = 3
    /\ \A i \in 1..3 : heap[i].level = i
    /\ maxLevel = 3

\* The keys on the level-0 walk of t.
KeysOn(t) == {t.heap[n].key : n \in InList(t)}

\* C33: for a list of distinct keys that contains key k, Delete(k) followed
\* by Insert(k) ends without failure and leaves the set of keys on the
\* level-0 walk and the element count as they were, whatever level the new
\* node draws.
C33_DeleteInsertRestores ==
    err = "ok" =>
        \A k \in KeysOn(List) :
            \A rnd \in Draws :
                LET d == Delete(List, k)
                    i == Insert(d.t, k, rnd)
                IN  /\ d.err = "ok"
                    /\ i.err = "ok"
                    /\ KeysOn(i.t) = KeysOn(List)
                    /\ i.t.elementCount = elementCount

Qualifying(key, minLevel) ==
    {L \in Levels :
        /\ L <= maxLevel
        /\ \/ startLevels[L] # NIL /\ KeyOf(startLevels[L]) <= key
           \/ L <= minLevel}

\* The minLevel arguments: 0 from Find and Delete, the level of the new node
\* from Insert, and -1, which no level is below.
MinLevels == (-1)..(MaxNodes + 1)

\* C35: findEntryIndex(key, minLevel) returns the highest level L of
\* 0..maxLevel at which start[L] is present with start[L].key <= key or
\* L <= minLevel, and 0 when there is none (maxLevel < 0 included); on a
\* list that is not empty, start at the level Find and Delete get (minLevel
\* 0) is present.
C35_EntryIndex ==
    err = "ok" =>
        \A key \in QueryKeys :
            /\ \A m \in MinLevels :
                   LET r == findEntryIndex(List, key, m)
                       Q == Qualifying(key, m)
                   IN  /\ Q = {} => r = 0
                       /\ Q # {} => r \in Q /\ \A L \in Q : L <= r
            /\ ~isEmpty(List) =>
                   startLevels[findEntryIndex(List, key, 0)] # NIL

\* C35 witness: on a list with nodes at three levels Find enters at the top
\* level for one key, at a level in between for another and at level 0 for a
\* third, and for a minLevel that no level is below no level qualifies.
C35_Witness ==
    /\ err = "ok" /\ ~isEmpty(List) /\ maxLevel = 2
    /\ \E key \in QueryKeys : findEntryIndex(List, key, 0) = 2
    /\ \E key \in QueryKeys : findEntryIndex(List, key, 0) = 1
    /\ \E key \in QueryKeys :
           /\ findEntryIndex(List, key, 0) = 0
           /\ Qualifying(key, -1) = {}
           /\ Find(List, key).err = "ok"

====
